---- MODULE Spec2Model ----
(***************************************************************************)
(* t-rex: the MVT geometry encoder (src/mvt/geom_to_proto.rs) and the file *)
(* tile cache (src/cache/filecache.rs).                                    *)
(*                                                                         *)
(* A u32 is a tuple of WordBits bits, least significant bit first, so that  *)
(* the shifts, masks and exclusive-ors of the source are computed on the    *)
(* 32-bit pattern itself.  An i32 is an integer in I32Min..I32Max.          *)
(***************************************************************************)
EXTENDS Integers, Sequences, FiniteSets, TLC

VARIABLES
    build,      \* "debug" (overflow checks on) or "release" (wrapping)
    geom,       \* the geometry the caller holds: a sequence of parts, each a sequence of points
    start,      \* the startpos handed to encode_from
    res,        \* the outcome of the last encode_from call
    zz,         \* the last ParameterInteger round trip
    files,      \* the file system: the regular files, as [path, data] records
    dirs,       \* the file system: the directories
    written,    \* history: the bytes of the last completed write of each key
    last,       \* the outcome of the last cache call
    wpc, wfd,   \* each writing thread's position in Filecache::write and its file offset
    rpc, rgot   \* each reading thread's position in Filecache::read and what its sink read

encVars   == <<build, geom, start, res>>
cacheVars == <<files, dirs, written, last>>
raceVars  == <<wpc, wfd, rpc, rgot>>
vars      == <<build, geom, start, res, zz, files, dirs, written, last, wpc, wfd, rpc, rgot>>

(***************************************************************************)
(* 32-bit words.  A u32 is the pair <<hi, lo>> of its two 16-bit halves    *)
(* (value hi * 2^16 + lo); an i32 is an integer in I32Min..I32Max.         *)
(***************************************************************************)
I32Max == 2147483647
I32Min == -I32Max - 1
Half   == 2^16

RECURSIVE Xor16(_, _)
Xor16(a, b) == IF a = 0 THEN b ELSE IF b = 0 THEN a
               ELSE ((a + b) % 2) + 2 * Xor16(a \div 2, b \div 2)
RECURSIVE And16(_, _)
And16(a, b) == IF a = 0 \/ b = 0 THEN 0
               ELSE ((a % 2) * (b % 2)) + 2 * And16(a \div 2, b \div 2)
RECURSIVE Or16(_, _)
Or16(a, b) == IF a = 0 THEN b ELSE IF b = 0 THEN a
              ELSE (IF (a % 2) + (b % 2) > 0 THEN 1 ELSE 0) + 2 * Or16(a \div 2, b \div 2)

XorW(a, b) == <<Xor16(a[1], b[1]), Xor16(a[2], b[2])>>
AndW(a, b) == <<And16(a[1], b[1]), And16(a[2], b[2])>>
OrW(a, b)  == <<Or16(a[1], b[1]), Or16(a[2], b[2])>>
\* u32 << k, 0 <= k < 16: the bits shifted out are lost
ShlW(a, k) == <<(a[1] * 2^k + (a[2] * 2^k) \div Half) % Half, (a[2] * 2^k) % Half>>
\* u32 >> k, 0 <= k < 16: zero-filling
ShrW(a, k) == <<a[1] \div 2^k, (a[2] \div 2^k) + (a[1] % 2^k) * 2^(16 - k)>>

\* a value in 0..I32Max as u32
U32(n) == <<n \div Half, n % Half>>
\* the cast `as u32` of an i32: its two's-complement pattern
AsU32(v) == <<(v \div Half) % Half, v % Half>>
\* the cast `as i32` of a u32
AsI32(w) == IF w[1] >= Half \div 2 THEN (w[1] - Half) * Half + w[2] ELSE w[1] * Half + w[2]
\* i32 << 1: computed on the bit pattern, the sign bit is shifted out
I32Shl(v, k) == AsI32(ShlW(AsU32(v), k))
\* i32 >> 31: sign-filling, so 0 or -1
I32Sar31(v) == (v \div Half) \div 2^15
I32Shr31(v) == AsI32(<<0, AsU32(v)[1] \div 2^15>>)
\* i32 ^ i32
I32Xor(a, b) == AsI32(XorW(AsU32(a), AsU32(b)))

(***************************************************************************)
(* CommandInteger, ParameterInteger                                        *)
(***************************************************************************)
MoveTo    == 1
LineTo    == 2
ClosePath == 7

\* CommandInteger::new, count a u32
CommandIntegerNew(id, count) == OrW(AndW(U32(id), U32(7)), ShlW(count, 3))
CommandIntegerId(c)    == AndW(c, U32(7))
CommandIntegerCount(c) == ShrW(c, 3)

ParameterIntegerNewZeroFill(value) == AsU32(I32Xor(I32Shl(value, 1), I32Shr31(value)))
\* ParameterInteger::new
ParameterIntegerNew(value) == AsU32(I32Xor(I32Shl(value, 1), I32Sar31(value)))
\* ParameterInteger::value
ParameterIntegerValue(p) == I32Xor(AsI32(ShrW(p, 1)), -AsI32(AndW(p, U32(1))))

(***************************************************************************)
(* Zigzag round trips                                                      *)
(***************************************************************************)
ZigRange == 6
ZigValues == (-ZigRange..ZigRange) \cup {I32Min + i : i \in 0..ZigRange}
                \cup {I32Max - i : i \in 0..ZigRange} \cup {25}

NoZig == [done |-> FALSE, v |-> 0, w |-> 0, p |-> U32(0), q |-> U32(0), back |-> 0]

\* ParameterInteger::new(v).value(), and ParameterInteger::new of a second value w
RoundTrip ==
    /\ ~zz.done
    /\ zz' = [zz EXCEPT !.done = TRUE,
                        !.p = ParameterIntegerNew(zz.v), !.q = ParameterIntegerNew(zz.w),
                        !.back = ParameterIntegerValue(ParameterIntegerNew(zz.v))]
    /\ UNCHANGED <<encVars, cacheVars, raceVars>>

NoRes == [kind |-> "None", panic |-> FALSE, seq |-> <<>>]

InitZigzag ==
    /\ build = "debug" /\ geom = <<>> /\ start = <<0, 0>> /\ res = NoRes
    /\ zz \in {[NoZig EXCEPT !.v = v, !.w = w] : v \in ZigValues, w \in ZigValues}
    /\ files = {} /\ dirs = {} /\ written = <<>> /\ last = <<>>
    /\ wpc = <<>> /\ wfd = <<>> /\ rpc = <<>> /\ rgot = <<>>

NextZigzag == RoundTrip
SpecZigzag == InitZigzag /\ [][NextZigzag]_vars

\* C7: ParameterInteger::new(v).value() = v for every i32 v tried, the extremes
\* included, and two distinct values never share an encoding.
ZigzagRoundTrip ==
    zz.done => /\ zz.back = zz.v
               /\ (zz.v # zz.w => zz.p # zz.q)
ZigzagWitness ==
    /\ zz.done /\ zz.v = I32Min /\ zz.w = I32Max /\ zz.back = I32Min
    /\ zz.p = <<Half - 1, Half - 1>> /\ zz.q = <<Half - 1, Half - 2>>

(***************************************************************************)
(* Geometry encoder                                                        *)
(***************************************************************************)
Ok(seq)  == [panic |-> FALSE, seq |-> seq]
Panic    == [panic |-> TRUE, seq |-> <<>>]
Origin   == <<0, 0>>

\* i32 - i32: an overflow panics in a debug build and wraps in a release build
SubOverflows(a, b) == (b < 0 /\ a > I32Max + b) \/ (b > 0 /\ a < I32Min + b)
WrappingSub(a, b) ==
    IF ~SubOverflows(a, b) THEN a - b
    ELSE IF b < 0 THEN (((a - I32Max) - 1) - b) + I32Min
    ELSE (((a - I32Min) - b) + I32Max) + 1
DeltaPanics(point, pos) ==
    build = "debug" /\ (SubOverflows(point[1], pos[1]) \/ SubOverflows(point[2], pos[2]))
\* the two pushes ParameterInteger::new(point.x - pos.x), ParameterInteger::new(point.y - pos.y)
DeltaPair(point, pos) ==
    <<ParameterIntegerNew(WrappingSub(point[1], pos[1])),
      ParameterIntegerNew(WrappingSub(point[2], pos[2]))>>

\* impl EncodableGeom for screen::Point
PointEncodeFrom(self, startpos) ==
    IF DeltaPanics(self, startpos) THEN Panic
    ELSE Ok(<<CommandIntegerNew(MoveTo, U32(1))>> \o DeltaPair(self, startpos))

RECURSIVE MultiPointLoop(_, _, _, _)
\* for point in &self.points, from the i-th point on, the cursor at pos
MultiPointLoop(points, i, pos, seq) ==
    IF i > Len(points) THEN Ok(seq)
    ELSE IF DeltaPanics(points[i], pos) THEN Panic
    ELSE MultiPointLoop(points, i + 1, points[i], seq \o DeltaPair(points[i], pos))

\* impl EncodableGeom for screen::MultiPoint
MultiPointEncodeFrom(points, startpos) ==
    MultiPointLoop(points, 1, startpos, <<CommandIntegerNew(MoveTo, U32(Len(points)))>>)

RECURSIVE SegmentLoop(_, _, _, _)
\* for i in lo..hi (0-based, hi exclusive): the delta of points[i] from points[i-1]
SegmentLoop(points, i, hi, seq) ==
    IF i >= hi THEN Ok(seq)
    ELSE IF DeltaPanics(points[i + 1], points[i]) THEN Panic
    ELSE SegmentLoop(points, i + 1, hi, seq \o DeltaPair(points[i + 1], points[i]))

LineStringEncodeFromCountsAll(points, startpos) ==
    IF Len(points) > 0 THEN
        LET first == PointEncodeFrom(points[1], startpos) IN
        IF first.panic THEN Panic
        ELSE SegmentLoop(points, 1, Len(points),
                 Append(first.seq, CommandIntegerNew(LineTo, U32(Len(points)))))
    ELSE Ok(<<>>)
\* impl EncodableGeom for screen::LineString
LineStringEncodeFrom(points, startpos) ==
    IF Len(points) > 0 THEN
        LET first == PointEncodeFrom(points[1], startpos) IN
        IF first.panic THEN Panic
        ELSE SegmentLoop(points, 1, Len(points),
                 Append(first.seq, CommandIntegerNew(LineTo, U32(Len(points) - 1))))
    ELSE Ok(<<>>)

EncodeRingFromClosingPointEncoded(points, startpos) ==
    LET open == LineStringEncodeFrom(points, startpos) IN
    IF open.panic \/ Len(points) = 0 THEN open
    ELSE Ok(Append(open.seq, CommandIntegerNew(ClosePath, U32(1))))
EncodeRingFromMinusThree(points, startpos) ==
    IF Len(points) > 0 THEN
        LET first == PointEncodeFrom(points[1], startpos) IN
        IF first.panic THEN Panic
        ELSE IF Len(points) < 3 /\ build = "debug" THEN Panic
        ELSE LET body == SegmentLoop(points, 1, Len(points) - 1,
                             Append(first.seq,
                                    CommandIntegerNew(LineTo, AsU32(Len(points) - 3))))
             IN  IF body.panic THEN Panic
                 ELSE Ok(Append(body.seq, CommandIntegerNew(ClosePath, U32(1))))
    ELSE Ok(<<>>)
\* screen::LineString::encode_ring_from.  self.points.len()-2 is a usize
\* subtraction: below 2 points it panics in a debug build and wraps in a release
\* build, where `as u32` keeps the low 32 bits of the wrapped count.
EncodeRingFrom(points, startpos) ==
    IF Len(points) > 0 THEN
        LET first == PointEncodeFrom(points[1], startpos) IN
        IF first.panic THEN Panic
        ELSE IF Len(points) < 2 /\ build = "debug" THEN Panic
        ELSE LET body == SegmentLoop(points, 1, Len(points) - 1,
                             Append(first.seq,
                                    CommandIntegerNew(LineTo, AsU32(Len(points) - 2))))
             IN  IF body.panic THEN Panic
                 ELSE Ok(Append(body.seq, CommandIntegerNew(ClosePath, U32(1))))
    ELSE Ok(<<>>)

RECURSIVE MultiLineStringLoopFromStart(_, _, _, _, _)
MultiLineStringLoopFromStart(lines, i, pos, seq, startpos) ==
    IF i > Len(lines) THEN Ok(seq)
    ELSE IF Len(lines[i]) > 0 THEN
        LET part == LineStringEncodeFrom(lines[i], startpos) IN
        IF part.panic THEN Panic
        ELSE MultiLineStringLoopFromStart(lines, i + 1, pos, seq \o part.seq, startpos)
    ELSE MultiLineStringLoopFromStart(lines, i + 1, pos, seq, startpos)
RECURSIVE MultiLineStringLoop(_, _, _, _)
\* for line in &self.lines, from the i-th line on, the cursor at pos
MultiLineStringLoop(lines, i, pos, seq) ==
    IF i > Len(lines) THEN Ok(seq)
    ELSE IF Len(lines[i]) > 0 THEN
        LET part == LineStringEncodeFrom(lines[i], pos) IN
        IF part.panic THEN Panic
        ELSE MultiLineStringLoop(lines, i + 1, lines[i][Len(lines[i])], seq \o part.seq)
    ELSE MultiLineStringLoop(lines, i + 1, pos, seq)

MultiLineStringEncodeFromOrigin(lines, startpos) ==
    MultiLineStringLoopFromStart(lines, 1, startpos, <<>>, startpos)
\* impl EncodableGeom for screen::MultiLineString
MultiLineStringEncodeFrom(lines, startpos) == MultiLineStringLoop(lines, 1, startpos, <<>>)

RECURSIVE PolygonLoop(_, _, _, _)
\* for line in &self.rings, from the i-th ring on, the cursor at pos
PolygonLoop(rings, i, pos, seq) ==
    IF i > Len(rings) THEN Ok(seq)
    ELSE IF Len(rings[i]) > 0 THEN
        LET part == EncodeRingFrom(rings[i], pos) IN
        IF part.panic THEN Panic
        ELSE PolygonLoop(rings, i + 1, rings[i][Len(rings[i])], seq \o part.seq)
    ELSE PolygonLoop(rings, i + 1, pos, seq)

\* impl EncodableGeom for screen::Polygon
PolygonEncodeFrom(rings, startpos) == PolygonLoop(rings, 1, startpos, <<>>)

(***************************************************************************)
(* The encoder's callers: a geometry is built part by part and point by    *)
(* point, then encoded as one of the five geometry types.                  *)
(***************************************************************************)
MaxTotal == 5       \* points in a geometry
MaxParts == 2       \* lines of a MultiLineString, rings of a Polygon
Pts      == {<<0, 0>>, <<1, 2>>}
Starts   == {Origin, <<2, -1>>}
\* single points at the ends of the i32 range, where a delta can overflow
ExtremePts == {<<I32Max, 0>>, <<-2, I32Min>>, <<I32Min, I32Max>>}

RECURSIVE TotalLen(_)
TotalLen(g) == IF g = <<>> THEN 0 ELSE Len(Head(g)) + TotalLen(Tail(g))
Small(g) == \A i \in 1..Len(g) : \A j \in 1..Len(g[i]) : g[i][j] \in Pts

Outcome(kind, r) == [kind |-> kind, panic |-> r.panic, seq |-> r.seq]

\* screen::LineString { points: vec![] } pushed onto lines / rings
AddPart ==
    /\ Small(geom) /\ Len(geom) < MaxParts
    /\ geom' = Append(geom, <<>>)
    /\ res' = NoRes
    /\ UNCHANGED <<build, start, zz, cacheVars, raceVars>>

\* screen::Point pushed onto the last part's points
AddPoint(p) ==
    /\ Small(geom) /\ Len(geom) > 0 /\ TotalLen(geom) < MaxTotal
    /\ geom' = [geom EXCEPT ![Len(geom)] = Append(@, p)]
    /\ res' = NoRes
    /\ UNCHANGED <<build, start, zz, cacheVars, raceVars>>

\* a geometry of one point far from the origin
ExtremePoint(p) ==
    /\ geom = <<>>
    /\ geom' = <<<<p>>>>
    /\ res' = NoRes
    /\ UNCHANGED <<build, start, zz, cacheVars, raceVars>>

EncodePoint ==
    /\ Len(geom) = 1 /\ Len(geom[1]) = 1
    /\ res' = Outcome("Point", PointEncodeFrom(geom[1][1], start))
    /\ UNCHANGED <<build, geom, start, zz, cacheVars, raceVars>>

EncodeMultiPoint ==
    /\ Len(geom) = 1
    /\ res' = Outcome("MultiPoint", MultiPointEncodeFrom(geom[1], start))
    /\ UNCHANGED <<build, geom, start, zz, cacheVars, raceVars>>

EncodeLineString ==
    /\ Len(geom) = 1
    /\ res' = Outcome("LineString", LineStringEncodeFrom(geom[1], start))
    /\ UNCHANGED <<build, geom, start, zz, cacheVars, raceVars>>

EncodeMultiLineString ==
    /\ res' = Outcome("MultiLineString", MultiLineStringEncodeFrom(geom, start))
    /\ UNCHANGED <<build, geom, start, zz, cacheVars, raceVars>>

EncodePolygon ==
    /\ res' = Outcome("Polygon", PolygonEncodeFrom(geom, start))
    /\ UNCHANGED <<build, geom, start, zz, cacheVars, raceVars>>

Init ==
    /\ build \in {"debug", "release"} /\ geom = <<>> /\ start \in Starts /\ res = NoRes
    /\ zz = NoZig
    /\ files = {} /\ dirs = {} /\ written = <<>> /\ last = <<>>
    /\ wpc = <<>> /\ wfd = <<>> /\ rpc = <<>> /\ rgot = <<>>

Next ==
    \/ AddPart
    \/ \E p \in Pts : AddPoint(p)
    \/ \E p \in ExtremePts : ExtremePoint(p)
    \/ EncodePoint
    \/ EncodeMultiPoint
    \/ EncodeLineString
    \/ EncodeMultiLineString
    \/ EncodePolygon

Spec == Init /\ [][Next]_vars

(***************************************************************************)
(* What the encoder's output is claimed to be, stated without the encoder:  *)
(* zigzag as arithmetic, command integers as id + 8 * count.                *)
(***************************************************************************)
ZigZag(d)      == U32(IF d >= 0 THEN 2 * d ELSE -2 * d - 1)
Cmd(id, count) == U32(id + 8 * count)
Delta(p, q)    == <<ZigZag(p[1] - q[1]), ZigZag(p[2] - q[2])>>
Last(points)   == points[Len(points)]

RECURSIVE Deltas(_, _, _)
\* the delta pairs of points[lo..hi] (1-based), each from the point before it
Deltas(points, lo, hi) ==
    IF lo > hi THEN <<>> ELSE Delta(points[lo], points[lo - 1]) \o Deltas(points, lo + 1, hi)

RingsEncodable(g) == \A i \in 1..Len(g) : Len(g[i]) # 1
PointsOf(g) == UNION {{g[i][j] : j \in 1..Len(g[i])} : i \in 1..Len(g)}
\* no coordinate difference the encoder can form leaves the i32 range
DeltasFit(g, s) ==
    \A p \in PointsOf(g) : \A q \in PointsOf(g) \cup {s} :
        ~SubOverflows(p[1], q[1]) /\ ~SubOverflows(p[2], q[2])

RECURSIVE Words(_)
Words(ns) == IF ns = <<>> THEN <<>> ELSE <<U32(Head(ns))>> \o Words(Tail(ns))

RECURSIVE ThreadedLines(_, _)
\* every non-empty part's open-path encoding from the running cursor
ThreadedLines(parts, cursor) ==
    IF parts = <<>> THEN <<>>
    ELSE IF Head(parts) = <<>> THEN ThreadedLines(Tail(parts), cursor)
    ELSE LineStringEncodeFrom(Head(parts), cursor).seq
             \o ThreadedLines(Tail(parts), Last(Head(parts)))

ExampleLines == << << <<2, 2>>, <<2, 10>>, <<10, 10>> >>, << <<1, 1>>, <<3, 5>> >> >>

\* C1: MultiLineString.encode_from(start) is the concatenation, over the non-empty
\* parts in order, of each part's LineString encoding taken from a cursor that
\* starts at start and moves to the last point of every non-empty part; so a later
\* part's MoveTo delta is from the previous non-empty part's last point, and an
\* empty part adds nothing and leaves the cursor alone.
MultiLineStringThreadsCursor ==
    /\ MultiLineStringEncodeFrom(ExampleLines, Origin).seq
           = Words(<<9, 4, 4, 18, 0, 16, 16, 0, 9, 17, 17, 10, 4, 8>>)
    /\ (res.kind = "MultiLineString" /\ Small(geom)) =>
           /\ ~res.panic
           /\ res.seq = ThreadedLines(geom, start)
           /\ \A i \in 1..Len(geom) : \A j \in 1..Len(geom) :
                 (i < j /\ geom[i] # <<>> /\ geom[j] # <<>>
                        /\ \A k \in (i + 1)..(j - 1) : geom[k] = <<>>) =>
                    LET at == Len(ThreadedLines(SubSeq(geom, 1, j - 1), start)) IN
                    SubSeq(res.seq, at + 1, at + 3)
                        = <<Cmd(MoveTo, 1)>> \o Delta(geom[j][1], Last(geom[i]))
MultiLineStringWitness ==
    /\ res.kind = "MultiLineString" /\ ~res.panic /\ Len(geom) = 2
    /\ Len(geom[1]) = 2 /\ Len(geom[2]) = 2 /\ Last(geom[1]) # start /\ start # Origin
    /\ geom[2][1] # Last(geom[1])

ExpectedRing(points, cursor) ==
    <<Cmd(MoveTo, 1)>> \o Delta(points[1], cursor)
        \o <<Cmd(LineTo, Len(points) - 2)>> \o Deltas(points, 2, Len(points) - 1)
        \o <<Cmd(ClosePath, 1)>>

RECURSIVE ThreadedRings(_, _)
ThreadedRings(rings, cursor) ==
    IF rings = <<>> THEN <<>>
    ELSE IF Head(rings) = <<>> THEN ThreadedRings(Tail(rings), cursor)
    ELSE ExpectedRing(Head(rings), cursor) \o ThreadedRings(Tail(rings), Last(Head(rings)))

ExampleRings == << << <<3, 6>>, <<8, 12>>, <<20, 34>>, <<3, 6>> >> >>

\* C2: for a Polygon whose non-empty rings all have N >= 2 points,
\* encode_from(start) is, ring by ring, MoveTo(1) with the delta of points[0] from
\* the cursor, LineTo(N-2) with the deltas of points[1..N-2], ClosePath(1); the
\* closing point is not encoded; the cursor starts at start and moves to the last
\* point of every non-empty ring; empty rings are skipped.
PolygonRingsEncoded ==
    /\ PolygonEncodeFrom(ExampleRings, Origin).seq = Words(<<9, 6, 12, 18, 10, 12, 24, 44, 15>>)
    /\ (res.kind = "Polygon" /\ Small(geom) /\ RingsEncodable(geom)) =>
           (~res.panic /\ res.seq = ThreadedRings(geom, start))
PolygonWitness ==
    /\ res.kind = "Polygon" /\ ~res.panic /\ Len(geom) = 2
    /\ Len(geom[1]) = 3 /\ Len(geom[2]) = 2 /\ Last(geom[1]) # start
    /\ geom[1][2] # geom[1][3] /\ geom[2][1] # Last(geom[1])

RECURSIVE Framed(_, _)
\* seq[i..] is a concatenation of groups: a command integer, then 2 * count
\* parameters after MoveTo and LineTo, none after ClosePath
Framed(seq, i) ==
    IF i > Len(seq) THEN TRUE
    ELSE LET id    == seq[i][2] % 8
             count == seq[i][2] \div 8
             fits  == seq[i][1] = 0 /\ i + 2 * count <= Len(seq)
         IN  IF id = ClosePath THEN Framed(seq, i + 1)
             ELSE IF id \in {MoveTo, LineTo} THEN fits /\ Framed(seq, i + 1 + 2 * count)
             ELSE FALSE

\* C3: every sequence encode_from returns for a Point, MultiPoint, LineString,
\* MultiLineString or Polygon (non-empty rings of at least 2 points) is well-framed.
EncodedSequenceFramed ==
    (res.kind # "None" /\ ~res.panic /\ (res.kind = "Polygon" => RingsEncodable(geom)))
        => Framed(res.seq, 1)
FramedWitness ==
    /\ res.kind = "LineString" /\ ~res.panic /\ Len(geom[1]) = 3 /\ Len(res.seq) = 8
    /\ Framed(res.seq, 1) /\ ~Framed(res.seq, 2)

\* C4: LineString.encode_from(start) is empty for N = 0; for N >= 1 the Point
\* encoding of points[0] from start, followed, only if N > 1, by LineTo(N-1) and the
\* N-1 delta pairs; a one-point LineString is the three integers of the Point case.
LineStringOpenPath ==
    (res.kind = "LineString" /\ Small(geom)) =>
        LET points == geom[1] IN
        /\ ~res.panic
        /\ res.seq = IF points = <<>> THEN <<>>
                     ELSE <<Cmd(MoveTo, 1)>> \o Delta(points[1], start)
                          \o (IF Len(points) > 1
                              THEN <<Cmd(LineTo, Len(points) - 1)>>
                                       \o Deltas(points, 2, Len(points))
                              ELSE <<>>)

\* C8: with deltas that fit in i32, encode_from returns a sequence for every Point,
\* MultiPoint, LineString and MultiLineString and for every Polygon whose rings have
\* 0 or at least 2 points: a call that fails is a Polygon's, with a one-point ring.
EncoderTotal ==
    (res.kind # "None" /\ DeltasFit(geom, start)) =>
        (res.panic => (res.kind = "Polygon" /\ ~RingsEncodable(geom)))
EncoderTotalWitness ==
    /\ build = "debug" /\ res.kind = "Polygon" /\ ~res.panic /\ Len(geom) = 2
    /\ geom[1] = <<>> /\ Len(geom[2]) = 2

RECURSIVE Replay(_, _, _, _)
\* the absolute points a decoder visits: seq[i..] read with n parameter pairs of
\* the current command still to come, the cursor at pos
Replay(seq, i, n, pos) ==
    IF i > Len(seq) THEN <<>>
    ELSE IF n > 0 THEN
        LET to == <<pos[1] + ParameterIntegerValue(seq[i]),
                    pos[2] + ParameterIntegerValue(seq[i + 1])>>
        IN  <<to>> \o Replay(seq, i + 2, n - 1, to)
    ELSE IF AsI32(CommandIntegerId(seq[i])) = ClosePath THEN Replay(seq, i + 1, 0, pos)
    ELSE Replay(seq, i + 1, AsI32(CommandIntegerCount(seq[i])), pos)

RECURSIVE RingVertices(_)
RingVertices(rings) ==
    IF rings = <<>> THEN <<>>
    ELSE SubSeq(Head(rings), 1, Len(Head(rings)) - 1) \o RingVertices(Tail(rings))

ClosedRings(g) ==
    /\ Len(g) >= 1
    /\ \A i \in 1..Len(g) : Len(g[i]) >= 2 /\ g[i][1] = Last(g[i])

\* C9: for a Polygon of closed rings of N >= 2 points, replaying
\* encode_from(start) from start visits, ring by ring, exactly points[0..N-2].
PolygonReplayVisitsRings ==
    (res.kind = "Polygon" /\ ~res.panic /\ ClosedRings(geom)) =>
        Replay(res.seq, 1, 0, start) = RingVertices(geom)

(***************************************************************************)
(* Filecache.  A path is the string format! builds, kept as its sequence   *)
(* of tokens: the base path and the tileset name are one token each, every *)
(* digit, "/" and ".pbf" is a token.                                       *)
(***************************************************************************)
Basepath == "t_rex_test"
Digits   == <<"0", "1", "2", "3", "4", "5", "6", "7", "8", "9">>

RECURSIVE Decimal(_)
\* format!("{}", n)
Decimal(n) == IF n < 10 THEN <<Digits[n + 1]>> ELSE Decimal(n \div 10) \o <<Digits[(n % 10) + 1]>>
\* format!("{:03}", n): zero-padded to at least three digits
Pad3(n) == LET d == Decimal(n) IN
           IF Len(d) >= 3 THEN d ELSE [i \in 1..(3 - Len(d)) |-> "0"] \o d

PathForTileUnsharded(tileset_name, zoom, x, y) ==
    <<Basepath, "/", tileset_name, "/">> \o Decimal(zoom) \o <<"/">>
        \o Pad3(x % 1000) \o <<"/">> \o Pad3(y % 1000) \o <<".pbf">>
\* Filecache::path_for_tile
PathForTile(tileset_name, zoom, x, y) ==
    <<Basepath, "/", tileset_name, "/">> \o Decimal(zoom) \o <<"/">>
        \o Pad3(x \div 1000) \o <<"/">> \o Pad3(x % 1000) \o <<"/">>
        \o Pad3(y \div 1000) \o <<"/">> \o Pad3(y % 1000) \o <<".pbf">>

KeyPath(k) == PathForTile(k.tileset, k.zoom, k.x, k.y)

\* Path::parent and all its ancestors, which fs::create_dir_all creates
Ancestors(path) == {SubSeq(path, 1, i - 1) : i \in {j \in 2..Len(path) : path[j] = "/"}}

IsFile(path) == path \in DOMAIN files
IsDir(path)  == path \in dirs

Key(t, z, x, y) == [tileset |-> t, zoom |-> z, x |-> x, y |-> y]
Keys == {Key("tileset", 0, 1, 2), Key("tileset", 0, 1001, 2), Key("tileset", 0, 1, 1002),
         Key("tileset", 1, 1, 2), Key("osm", 0, 1, 2)}
Payloads == {<<48>>, <<48, 49>>}

NoCall == [op |-> "none", key |-> Key("", 0, 0, 0), hit |-> FALSE, sunk |-> FALSE, data |-> <<>>]

\* what Filecache::read answers now: File::open succeeds on a regular file (and,
\* on Unix, on a directory, whose reads then fail and give the sink nothing)
ReadOutcome(k) ==
    IF IsFile(KeyPath(k)) THEN [hit |-> TRUE, sunk |-> TRUE, data |-> files[KeyPath(k)]]
    ELSE IF IsDir(KeyPath(k)) THEN [hit |-> TRUE, sunk |-> TRUE, data |-> <<>>]
    ELSE [hit |-> FALSE, sunk |-> FALSE, data |-> <<>>]

\* what Filecache::exists answers now: Path::exists
ExistsOutcome(k) == IsFile(KeyPath(k)) \/ IsDir(KeyPath(k))

\* Filecache::read, the sink reading the stream to its end
Read(k) ==
    /\ last' = [op |-> "read", key |-> k, hit |-> ReadOutcome(k).hit,
                sunk |-> ReadOutcome(k).sunk, data |-> ReadOutcome(k).data]
    /\ UNCHANGED <<encVars, zz, files, dirs, written, raceVars>>

\* Filecache::write: create_dir_all fails when an ancestor is a regular file,
\* File::create when the path is a directory; otherwise the file holds obj
Write(k, obj) ==
    LET fullpath == KeyPath(k) IN
    IF \E d \in Ancestors(fullpath) : IsFile(d) THEN
        /\ last' = [NoCall EXCEPT !.op = "write failed", !.key = k]
        /\ UNCHANGED <<encVars, zz, files, dirs, written, raceVars>>
    ELSE IF IsDir(fullpath) THEN
        /\ dirs' = dirs \cup Ancestors(fullpath)
        /\ last' = [NoCall EXCEPT !.op = "write failed", !.key = k]
        /\ UNCHANGED <<encVars, zz, files, written, raceVars>>
    ELSE
        /\ dirs' = dirs \cup Ancestors(fullpath)
        /\ files' = [q \in DOMAIN files \cup {fullpath} |-> IF q = fullpath THEN obj ELSE files[q]]
        /\ written' = [j \in DOMAIN written \cup {k} |-> IF j = k THEN obj ELSE written[j]]
        /\ last' = [NoCall EXCEPT !.op = "write", !.key = k, !.data = obj]
        /\ UNCHANGED <<encVars, zz, raceVars>>

\* Filecache::exists
Exists(k) ==
    /\ last' = [NoCall EXCEPT !.op = "exists", !.key = k, !.hit = ExistsOutcome(k)]
    /\ UNCHANGED <<encVars, zz, files, dirs, written, raceVars>>

InitCache ==
    /\ build = "debug" /\ geom = <<>> /\ start = Origin /\ res = NoRes /\ zz = NoZig
    /\ files = <<>> /\ dirs = {} /\ written = <<>> /\ last = NoCall
    /\ wpc = <<>> /\ wfd = <<>> /\ rpc = <<>> /\ rgot = <<>>

NextCache ==
    \/ \E k \in Keys, obj \in Payloads : Write(k, obj)
    \/ \E k \in Keys : Read(k)
    \/ \E k \in Keys : Exists(k)

SpecCache == InitCache /\ [][NextCache]_vars

\* C5: read(k) hits and hands the sink the bytes of the latest write(k) when k was
\* written, and misses without calling the sink when it was not; exists(k) is
\* read(k)'s hit; a write to another key changes neither.
CacheContract ==
    /\ \A k \in Keys :
          /\ ReadOutcome(k) = IF k \in DOMAIN written
                              THEN [hit |-> TRUE, sunk |-> TRUE, data |-> written[k]]
                              ELSE [hit |-> FALSE, sunk |-> FALSE, data |-> <<>>]
          /\ ExistsOutcome(k) = ReadOutcome(k).hit
    /\ last.op = "read" =>
          /\ last.hit = (last.key \in DOMAIN written) /\ last.sunk = last.hit
          /\ last.hit => last.data = written[last.key]
    /\ last.op = "exists" => last.hit = (last.key \in DOMAIN written)
CacheWitness ==
    /\ last.op = "read" /\ last.hit /\ last.key = Key("tileset", 0, 1, 2)
    /\ last.data = <<48, 49>>
    /\ Key("tileset", 0, 1001, 2) \in DOMAIN written
    /\ written[Key("tileset", 0, 1001, 2)] = <<48>>
    /\ Key("tileset", 0, 1, 1002) \notin DOMAIN written

\* C6: a written tile's file is at basepath/<tileset>/<zoom>/<x>/<y>.pbf, the
\* numbers in plain decimal.
WrittenAtPlainPath ==
    \A k \in DOMAIN written :
        IsFile(<<Basepath, "/", k.tileset, "/">> \o Decimal(k.zoom) \o <<"/">>
                   \o Decimal(k.x) \o <<"/">> \o Decimal(k.y) \o <<".pbf">>)

(***************************************************************************)
(* Filecache shared by threads: Filecache::write is three system calls     *)
(* (create_dir_all, File::create, the writes of write_all), Filecache::read *)
(* two (File::open, the sink's read), and other threads run in between.    *)
(***************************************************************************)
Writers == {"w1", "w2"}
Readers == {"r1"}
RaceKey == Key("tileset", 0, 1, 2)
RacePath == KeyPath(RaceKey)
OldPayload == <<57>>
WriterPayload(w) == IF w = "w1" THEN <<48, 49>> ELSE <<50, 51, 52>>

\* the file's bytes after `bytes` are written at offset off (a gap reads as zeros)
WriteAt(data, off, bytes) ==
    [i \in 1..(IF Len(data) > off + Len(bytes) THEN Len(data) ELSE off + Len(bytes)) |->
        IF i > off /\ i <= off + Len(bytes) THEN bytes[i - off]
        ELSE IF i <= Len(data) THEN data[i] ELSE 0]

\* try!(fs::create_dir_all(p.parent().unwrap()))
WriteCreateDirAll(w) ==
    /\ wpc[w] = "call"
    /\ dirs' = dirs \cup Ancestors(RacePath)
    /\ wpc' = [wpc EXCEPT ![w] = "create"]
    /\ UNCHANGED <<encVars, zz, files, written, last, wfd, rpc, rgot>>

\* File::create: the file is created, or truncated to no bytes
WriteFileCreate(w) ==
    /\ wpc[w] = "create"
    /\ files' = [q \in DOMAIN files \cup {RacePath} |-> IF q = RacePath THEN <<>> ELSE files[q]]
    /\ wfd' = [wfd EXCEPT ![w] = 0]
    /\ wpc' = [wpc EXCEPT ![w] = "write"]
    /\ UNCHANGED <<encVars, zz, dirs, written, last, rpc, rgot>>

\* f.write_all(obj): one write call, which takes n of the bytes still to write
WriteAll(w, n) ==
    /\ wpc[w] = "write"
    /\ n \in 1..(Len(WriterPayload(w)) - wfd[w])
    /\ files' = [files EXCEPT ![RacePath] =
                    WriteAt(@, wfd[w], SubSeq(WriterPayload(w), wfd[w] + 1, wfd[w] + n))]
    /\ wfd' = [wfd EXCEPT ![w] = @ + n]
    /\ IF wfd[w] + n = Len(WriterPayload(w))
       THEN /\ wpc' = [wpc EXCEPT ![w] = "done"]
            /\ written' = [j \in DOMAIN written \cup {RaceKey} |-> WriterPayload(w)]
       ELSE UNCHANGED <<wpc, written>>
    /\ UNCHANGED <<encVars, zz, dirs, last, rpc, rgot>>

\* match File::open(&fullpath)
ReadFileOpen(r) ==
    /\ rpc[r] = "call"
    /\ IF IsFile(RacePath)
       THEN rpc' = [rpc EXCEPT ![r] = "sink"] /\ UNCHANGED rgot
       ELSE /\ rpc' = [rpc EXCEPT ![r] = "done"]
            /\ rgot' = [rgot EXCEPT ![r] = [hit |-> FALSE, data |-> <<>>]]
    /\ UNCHANGED <<encVars, zz, cacheVars, wpc, wfd>>

\* Ok(mut f) => { read(&mut f); true }: the sink reads the open file to its end
ReadSink(r) ==
    /\ rpc[r] = "sink"
    /\ rgot' = [rgot EXCEPT ![r] = [hit |-> TRUE, data |-> files[RacePath]]]
    /\ rpc' = [rpc EXCEPT ![r] = "done"]
    /\ UNCHANGED <<encVars, zz, cacheVars, wpc, wfd>>

InitRace ==
    /\ build = "debug" /\ geom = <<>> /\ start = Origin /\ res = NoRes /\ zz = NoZig
    /\ \/ files = <<>> /\ dirs = {} /\ written = <<>>
       \/ /\ files = [q \in {RacePath} |-> OldPayload]
          /\ dirs = Ancestors(RacePath)
          /\ written = [j \in {RaceKey} |-> OldPayload]
    /\ last = NoCall
    /\ wpc = [w \in Writers |-> "call"] /\ wfd = [w \in Writers |-> 0]
    /\ rpc = [r \in Readers |-> "call"]
    /\ rgot = [r \in Readers |-> [hit |-> FALSE, data |-> <<>>]]

NextRace ==
    \/ \E w \in Writers : WriteCreateDirAll(w)
    \/ \E w \in Writers : WriteFileCreate(w)
    \/ \E w \in Writers : \E n \in 1..Len(WriterPayload(w)) : WriteAll(w, n)
    \/ \E r \in Readers : ReadFileOpen(r)
    \/ \E r \in Readers : ReadSink(r)

SpecRace == InitRace /\ [][NextRace]_vars

\* C10: a read that runs while the key is being written and reports a hit hands the
\* sink the whole payload of one of the writes, or of an earlier completed write.
ReadHitIsWholePayload ==
    \A r \in Readers :
        (rpc[r] = "done" /\ rgot[r].hit) =>
            rgot[r].data \in {WriterPayload(w) : w \in Writers} \cup {OldPayload}
====
